---- MODULE Spec2Model ----
(***************************************************************************)
(* Model of heredity.py: exact inference by enumeration over a family      *)
(* graph (gene count 0/1/2, binary trait).                                 *)
(*                                                                         *)
(* Numbers.  Every entry of PROBS is a multiple of 0.01, so probabilities  *)
(* are kept exactly, in fixed point: a table entry or a pass probability   *)
(* is a count of hundredths (Unit), a gene probability a count of          *)
(* 1/Unit^2, and a joint probability over n persons a count of 1/Unit^3n.  *)
(* These counts exceed 32 bits, so they are natural numbers of arbitrary   *)
(* size: little-endian sequences of limbs in 0..Base-1 without leading     *)
(* zero limbs (<<>> is 0).  Python's floats are modelled by these exact    *)
(* values; rounding is not modelled.                                       *)
(*                                                                         *)
(* heredity.py as committed does not compile (line 203 carries a second    *)
(* statement, line 213 is indented by three spaces); the model follows     *)
(* the bodies of main, load_data, powerset, joint_probability, update and  *)
(* normalize as they are written.                                          *)
(***************************************************************************)
EXTENDS Integers, Sequences, FiniteSets, TLC

\* One hundredth is the grain of every entry of PROBS.
Unit == 100

Base == Unit * Unit

(***************************************************************************)
(* Arbitrary-size naturals                                                 *)
(***************************************************************************)
RECURSIVE FromInt(_)
FromInt(n) == IF n = 0 THEN <<>> ELSE <<n % Base>> \o FromInt(n \div Base)

RECURSIVE AddC(_, _, _)
AddC(a, b, c) ==
    IF a = <<>> /\ b = <<>>
    THEN IF c = 0 THEN <<>> ELSE <<c>>
    ELSE LET x == (IF a = <<>> THEN 0 ELSE Head(a))
                  + (IF b = <<>> THEN 0 ELSE Head(b)) + c
         IN  <<x % Base>> \o AddC(IF a = <<>> THEN <<>> ELSE Tail(a),
                                  IF b = <<>> THEN <<>> ELSE Tail(b),
                                  x \div Base)

Add(a, b) == AddC(a, b, 0)

RECURSIVE MulLimbC(_, _, _)
MulLimbC(a, m, c) ==
    IF a = <<>>
    THEN IF c = 0 THEN <<>> ELSE <<c>>
    ELSE LET x == Head(a) * m + c
         IN  <<x % Base>> \o MulLimbC(Tail(a), m, x \div Base)

MulLimb(a, m) == IF m = 0 THEN <<>> ELSE MulLimbC(a, m, 0)

RECURSIVE Mul(_, _)
Mul(a, b) ==
    IF a = <<>> \/ b = <<>>
    THEN <<>>
    ELSE LET rest == Mul(a, Tail(b))
         IN  Add(MulLimb(a, Head(b)), IF rest = <<>> THEN <<>> ELSE <<0>> \o rest)

RECURSIVE LeqFrom(_, _, _)
LeqFrom(a, b, i) ==
    IF i = 0 THEN TRUE
    ELSE IF a[i] # b[i] THEN a[i] < b[i]
    ELSE LeqFrom(a, b, i - 1)

Leq(a, b) ==
    IF Len(a) # Len(b) THEN Len(a) < Len(b) ELSE LeqFrom(a, b, Len(a))

RECURSIVE Pow(_, _)
Pow(a, k) == IF k = 0 THEN FromInt(1) ELSE Mul(a, Pow(a, k - 1))

(***************************************************************************)
(* A quotient a / b of two such numbers (Python's true division), kept as  *)
(* the pair; two quotients are equal when they cross-multiply equal.       *)
(***************************************************************************)
Div(a, b) == [num |-> a, den |-> b]

QEq(q, r) == Mul(q.num, r.den) = Mul(r.num, q.den)

QAdd(q, r) == [num |-> Add(Mul(q.num, r.den), Mul(r.num, q.den)),
               den |-> Mul(q.den, r.den)]

QIsOne(q) == q.den # <<>> /\ q.num = q.den

QInUnit(q) == q.den # <<>> /\ Leq(q.num, q.den)

(***************************************************************************)
(* PROBS                                                                   *)
(***************************************************************************)
PROBS_gene == (2 :> 1) @@ (1 :> 3) @@ (0 :> 96)

PROBS_trait ==
    (2 :> ((TRUE :> 65) @@ (FALSE :> 35))) @@
    (1 :> ((TRUE :> 56) @@ (FALSE :> 44))) @@
    (0 :> ((TRUE :> 1) @@ (FALSE :> 99)))

PROBS_mutation == 1

\* The literal 0.5 of the pass probability of a one-copy parent.
Half == 50

(***************************************************************************)
(* The family of the source's examples; None is Python's None.             *)
(***************************************************************************)
NameSeq == <<"Harry", "James", "Lily">>

Names == {NameSeq[i] : i \in 1..Len(NameSeq)}

None == "None"

\* A name no row of the CSV carries.
Absent == "Molly"

\* The persons of S in the order of the rows.
SeqOf(S) == SelectSeq(NameSeq, LAMBDA x : x \in S)

VARIABLES
    csv,            \* the rows of the data file, by name
    people,         \* main: load_data's result
    probabilities,  \* main: the accumulators, then the normalized result
    pc,             \* where main (or the function under test) stands
    ht_i,           \* main: position of have_trait in powerset(names)
    og_i,           \* main: position of one_gene in powerset(names)
    tg_i,           \* main: position of two_genes in powerset(names - one_gene)
    call,           \* arguments of the latest joint_probability/update call
    entered,        \* history: trait subsets that passed the evidence check
    skipped,        \* history: trait subsets dropped by the evidence check
    visited,        \* history: (one_gene, two_genes) pairs of this trait subset
    nvisits,        \* history: number of gene assignments of this trait subset
    total           \* history: sum of the joint probabilities accumulated

vars == <<csv, people, probabilities, pc, ht_i, og_i, tg_i, call,
          entered, skipped, visited, nvisits, total>>

(***************************************************************************)
(* load_data                                                               *)
(***************************************************************************)
OrNone(field) == IF field = "" THEN None ELSE field

load_data(rows) ==
    [name \in DOMAIN rows |->
        [name   |-> name,
         mother |-> OrNone(rows[name].mother),
         father |-> OrNone(rows[name].father),
         trait  |-> IF rows[name].trait = "1" THEN "True"
                    ELSE IF rows[name].trait = "0" THEN "False" ELSE None]]

(***************************************************************************)
(* powerset: subsets by size, each size in itertools.combinations order    *)
(***************************************************************************)
RECURSIVE combinations(_, _)
combinations(s, r) ==
    IF r = 0 THEN << {} >>
    ELSE IF Len(s) < r THEN << >>
    ELSE LET rest == combinations(Tail(s), r - 1)
         IN  [i \in 1..Len(rest) |-> {Head(s)} \cup rest[i]]
             \o combinations(Tail(s), r)

RECURSIVE chain_from(_, _)
chain_from(s, r) ==
    IF r > Len(s) THEN << >> ELSE combinations(s, r) \o chain_from(s, r + 1)

powerset(S) == chain_from(SeqOf(S), 0)

(***************************************************************************)
(* joint_probability                                                       *)
(***************************************************************************)
PyBool(b) == IF b THEN "True" ELSE "False"

\* Mutant: membership in one_gene is tested first.
genes_of_one_first(person, one_gene, two_genes) ==
    IF person \in one_gene THEN 1
    ELSE IF person \in two_genes THEN 2
    ELSE 0

genes_of(person, one_gene, two_genes) ==
    IF person \in two_genes THEN 2
    ELSE IF person \in one_gene THEN 1
    ELSE 0

\* Mutant: the mutation rate is left out of the pass probability.
pass_probability_no_mutation(parent, one_gene, two_genes) ==
    IF parent \in two_genes THEN Unit
    ELSE IF parent \in one_gene THEN Half
    ELSE 0

\* Probability (hundredths) that a parent passes the gene.
pass_probability(parent, one_gene, two_genes) ==
    IF parent \in two_genes THEN Unit - PROBS_mutation
    ELSE IF parent \in one_gene THEN Half
    ELSE PROBS_mutation

\* Mutant: one copy counted as coming from the mother only.
gene_probability_one_way(ppl, person, one_gene, two_genes) ==
    LET genes == genes_of(person, one_gene, two_genes)
    IN  IF ppl[person].mother = None /\ ppl[person].father = None
        THEN PROBS_gene[genes] * Unit
        ELSE LET pass_mother == pass_probability(ppl[person].mother, one_gene, two_genes)
                 pass_father == pass_probability(ppl[person].father, one_gene, two_genes)
             IN  IF genes = 2 THEN pass_mother * pass_father
                 ELSE IF genes = 1 THEN pass_mother * (Unit - pass_father)
                 ELSE (Unit - pass_mother) * (Unit - pass_father)

\* Probability (1/Unit^2) of the person's number of genes.
gene_probability(ppl, person, one_gene, two_genes) ==
    LET genes == genes_of(person, one_gene, two_genes)
    IN  IF ppl[person].mother = None /\ ppl[person].father = None
        THEN PROBS_gene[genes] * Unit
        ELSE LET pass_mother == pass_probability(ppl[person].mother, one_gene, two_genes)
                 pass_father == pass_probability(ppl[person].father, one_gene, two_genes)
             IN  IF genes = 2 THEN pass_mother * pass_father
                 ELSE IF genes = 1
                 THEN pass_mother * (Unit - pass_father)
                      + (Unit - pass_mother) * pass_father
                 ELSE (Unit - pass_mother) * (Unit - pass_father)

\* Mutant: the probability of having the trait, whatever has_trait is.
trait_probability_true(person, one_gene, two_genes, have_trait) ==
    PROBS_trait[genes_of(person, one_gene, two_genes)][TRUE]

\* Probability (hundredths) of the person's trait given the number of genes.
trait_probability(person, one_gene, two_genes, have_trait) ==
    PROBS_trait[genes_of(person, one_gene, two_genes)][(person \in have_trait)]

RECURSIVE joint_over(_, _, _, _, _, _)
joint_over(s, probability, ppl, one_gene, two_genes, have_trait) ==
    IF s = << >> THEN probability
    ELSE joint_over(Tail(s),
                    Mul(probability,
                        FromInt(gene_probability(ppl, Head(s), one_gene, two_genes)
                                * trait_probability(Head(s), one_gene, two_genes,
                                                    have_trait))),
                    ppl, one_gene, two_genes, have_trait)

joint_probability(ppl, one_gene, two_genes, have_trait) ==
    joint_over(SeqOf(DOMAIN ppl), FromInt(1), ppl, one_gene, two_genes, have_trait)

\* The fixed-point value of 1.0 for a joint probability over the persons of ppl.
One(ppl) == Pow(FromInt(Unit), 3 * Cardinality(DOMAIN ppl))

(***************************************************************************)
(* update                                                                  *)
(***************************************************************************)
\* Mutant: only the persons named in one of the three sets are updated.
update_named_only(probs, one_gene, two_genes, have_trait, p) ==
    [person \in DOMAIN probs |->
        IF person \notin one_gene \cup two_genes \cup have_trait
        THEN probs[person]
        ELSE [gene  |-> [g \in DOMAIN probs[person].gene |->
                            IF g = genes_of(person, one_gene, two_genes)
                            THEN Add(probs[person].gene[g], p)
                            ELSE probs[person].gene[g]],
              trait |-> [t \in DOMAIN probs[person].trait |->
                            IF t = (person \in have_trait)
                            THEN Add(probs[person].trait[t], p)
                            ELSE probs[person].trait[t]]]]

\* Mutant: the trait bucket is updated for the persons of have_trait only.
update_trait_holders_only(probs, one_gene, two_genes, have_trait, p) ==
    [person \in DOMAIN probs |->
        [gene  |-> [g \in DOMAIN probs[person].gene |->
                       IF g = genes_of(person, one_gene, two_genes)
                       THEN Add(probs[person].gene[g], p)
                       ELSE probs[person].gene[g]],
         trait |-> [t \in DOMAIN probs[person].trait |->
                       IF t /\ person \in have_trait
                       THEN Add(probs[person].trait[t], p)
                       ELSE probs[person].trait[t]]]]

update(probs, one_gene, two_genes, have_trait, p) ==
    [person \in DOMAIN probs |->
        [gene  |-> [g \in DOMAIN probs[person].gene |->
                       IF g = genes_of(person, one_gene, two_genes)
                       THEN Add(probs[person].gene[g], p)
                       ELSE probs[person].gene[g]],
         trait |-> [t \in DOMAIN probs[person].trait |->
                       IF t = (person \in have_trait)
                       THEN Add(probs[person].trait[t], p)
                       ELSE probs[person].trait[t]]]]

(***************************************************************************)
(* normalize: in place, person by person; a zero sum raises                *)
(* ZeroDivisionError at that person and leaves the rest as it was.         *)
(***************************************************************************)
gene_sum(dist) == Add(Add(dist.gene[2], dist.gene[1]), dist.gene[0])

trait_sum(dist) == Add(dist.trait[TRUE], dist.trait[FALSE])

\* Mutant: the gene buckets are divided by the sum of the trait buckets.
normalize_gene_by_trait_sum(dist) ==
    [dist EXCEPT !.gene = [g \in DOMAIN dist.gene |-> Div(dist.gene[g], trait_sum(dist))]]

normalize_gene(dist) ==
    [dist EXCEPT !.gene = [g \in DOMAIN dist.gene |-> Div(dist.gene[g], gene_sum(dist))]]

normalize_trait(dist) ==
    [dist EXCEPT !.trait = [t \in DOMAIN dist.trait |-> Div(dist.trait[t], trait_sum(dist))]]

RECURSIVE normalize_over(_, _)
normalize_over(s, probs) ==
    IF s = << >> THEN [probs |-> probs, raised |-> FALSE]
    ELSE LET person == Head(s)
         IN  IF gene_sum(probs[person]) = << >>
             THEN [probs |-> probs, raised |-> TRUE]
             ELSE IF trait_sum(probs[person]) = << >>
             THEN [probs |-> [probs EXCEPT ![person] = normalize_gene(@)],
                   raised |-> TRUE]
             ELSE normalize_over(Tail(s),
                      [probs EXCEPT ![person] = normalize_trait(normalize_gene(@))])

normalize(probs) == normalize_over(SeqOf(DOMAIN probs), probs)

(***************************************************************************)
(* main                                                                    *)
(***************************************************************************)
ZeroDist ==
    [gene  |-> (2 :> << >>) @@ (1 :> << >>) @@ (0 :> << >>),
     trait |-> (TRUE :> << >>) @@ (FALSE :> << >>)]

NoCall == [one_gene |-> {}, two_genes |-> {}, have_trait |-> {}, p |-> << >>]

\* Rows of the data file: Harry's parents and everyone's trait vary.
ParentFields == {"", "Harry", "James", "Lily", Absent}

TraitFields == {"1", "0", ""}

Rows ==
    {[name \in Names |->
        [mother |-> IF name = "Harry" THEN m ELSE "",
         father |-> IF name = "Harry" THEN f ELSE "",
         trait  |-> t[name]]] :
      m \in ParentFields, f \in ParentFields, t \in [Names -> TraitFields]}

Init ==
    /\ csv \in Rows
    /\ people = << >>
    /\ probabilities = << >>
    /\ pc = "load"
    /\ ht_i = 1 /\ og_i = 1 /\ tg_i = 1
    /\ call = NoCall
    /\ entered = {} /\ skipped = {} /\ visited = {} /\ nvisits = 0
    /\ total = << >>

names == DOMAIN people

have_trait == powerset(names)[ht_i]

one_gene == powerset(names)[og_i]

\* Mutant: the innermost loop runs over powerset(names).
two_genes_list_all == powerset(names)

\* powerset(names - one_gene), the list the innermost loop runs over
two_genes_list == powerset(names \ one_gene)

two_genes == two_genes_list[tg_i]

\* Mutant: all(...) in place of any(...).
fails_evidence_all(ppl, trait_set) ==
    \A person \in DOMAIN ppl :
        /\ ppl[person].trait # None
        /\ ppl[person].trait # PyBool(person \in trait_set)

fails_evidence(ppl, trait_set) ==
    \E person \in DOMAIN ppl :
        /\ ppl[person].trait # None
        /\ ppl[person].trait # PyBool(person \in trait_set)

\* people = load_data(...); probabilities = {person: zeros}; names = set(people)
LoadData ==
    /\ pc = "load"
    /\ people' = load_data(csv)
    /\ probabilities' = [person \in DOMAIN load_data(csv) |-> ZeroDist]
    /\ pc' = "have_trait"
    /\ UNCHANGED <<csv, ht_i, og_i, tg_i, call, entered, skipped, visited,
                   nvisits, total>>

\* for have_trait in powerset(names): fails_evidence, continue
SkipTrait ==
    /\ pc = "have_trait"
    /\ ht_i <= Len(powerset(names))
    /\ fails_evidence(people, have_trait)
    /\ skipped' = skipped \cup {have_trait}
    /\ ht_i' = ht_i + 1
    /\ UNCHANGED <<csv, people, probabilities, pc, og_i, tg_i, call, entered,
                   visited, nvisits, total>>

\* for have_trait in powerset(names): the evidence holds, enter the gene loops
EnterTrait ==
    /\ pc = "have_trait"
    /\ ht_i <= Len(powerset(names))
    /\ ~fails_evidence(people, have_trait)
    /\ entered' = entered \cup {have_trait}
    /\ visited' = {}
    /\ nvisits' = 0
    /\ og_i' = 1
    /\ tg_i' = 1
    /\ pc' = "genes"
    /\ UNCHANGED <<csv, people, probabilities, ht_i, call, skipped, total>>

\* p = joint_probability(...); update(...); then the next position of the loops
Accumulate ==
    /\ pc = "genes"
    /\ LET p == joint_probability(people, one_gene, two_genes, have_trait)
       IN  /\ probabilities' = update(probabilities, one_gene, two_genes, have_trait, p)
           /\ call' = [one_gene |-> one_gene, two_genes |-> two_genes,
                       have_trait |-> have_trait, p |-> p]
           /\ total' = Add(total, p)
    /\ visited' = visited \cup {<<one_gene, two_genes>>}
    /\ nvisits' = nvisits + 1
    /\ IF tg_i < Len(two_genes_list)
       THEN /\ tg_i' = tg_i + 1
            /\ UNCHANGED <<og_i, ht_i, pc>>
       ELSE IF og_i < Len(powerset(names))
       THEN /\ og_i' = og_i + 1
            /\ tg_i' = 1
            /\ UNCHANGED <<ht_i, pc>>
       ELSE /\ ht_i' = ht_i + 1
            /\ pc' = "have_trait"
            /\ UNCHANGED <<og_i, tg_i>>
    /\ UNCHANGED <<csv, people, entered, skipped>>

\* normalize(probabilities)
Normalize ==
    /\ pc = "have_trait"
    /\ ht_i > Len(powerset(names))
    /\ probabilities' = normalize(probabilities).probs
    /\ pc' = IF normalize(probabilities).raised THEN "ZeroDivisionError" ELSE "done"
    /\ UNCHANGED <<csv, people, ht_i, og_i, tg_i, call, entered, skipped,
                   visited, nvisits, total>>

Next == LoadData \/ SkipTrait \/ EnterTrait \/ Accumulate \/ Normalize

Spec == Init /\ [][Next]_vars

(***************************************************************************)
(* update on its own: one call, on accumulators that hold the same amount  *)
(* in every bucket (zero: the accumulators as main and the example build   *)
(* them), with any three sets of persons, overlapping or not.              *)
(***************************************************************************)
MaxP == 2

MaxFill == 1

Fill(k) ==
    [person \in Names |->
        [gene  |-> [g \in {0, 1, 2} |-> FromInt(k)],
         trait |-> [t \in BOOLEAN |-> FromInt(k)]]]

InitUpdate ==
    /\ csv = << >>
    /\ people = << >>
    /\ \E k \in 0..MaxFill : probabilities = Fill(k)
    /\ pc = "update"
    /\ ht_i = 1 /\ og_i = 1 /\ tg_i = 1
    /\ \E og \in SUBSET Names, tg \in SUBSET Names, ht \in SUBSET Names, k \in 0..MaxP :
          call = [one_gene |-> og, two_genes |-> tg, have_trait |-> ht,
                  p |-> FromInt(k)]
    /\ entered = {} /\ skipped = {} /\ visited = {} /\ nvisits = 0
    /\ total = << >>

UpdateCall ==
    /\ pc = "update"
    /\ probabilities' = update(probabilities, call.one_gene, call.two_genes,
                               call.have_trait, call.p)
    /\ pc' = "updated"
    /\ UNCHANGED <<csv, people, ht_i, og_i, tg_i, call, entered, skipped,
                   visited, nvisits, total>>

NextUpdate == UpdateCall

SpecUpdate == InitUpdate /\ [][NextUpdate]_vars

(***************************************************************************)
(* normalize on its own: one call on two persons; Harry's five buckets     *)
(* hold any amounts up to MaxVal, James's gene buckets all hold one amount *)
(* and his trait buckets all hold another.                                 *)
(***************************************************************************)
MaxVal == 2

InitNormalize ==
    /\ csv = << >>
    /\ people = << >>
    /\ \E g \in [{0, 1, 2} -> 0..MaxVal], t \in [BOOLEAN -> 0..MaxVal],
          kg \in 0..MaxVal, kt \in 0..MaxVal :
          probabilities =
              ("Harry" :> [gene  |-> [x \in {0, 1, 2} |-> FromInt(g[x])],
                           trait |-> [x \in BOOLEAN |-> FromInt(t[x])]])
              @@ ("James" :> [gene  |-> Fill(kg)["James"].gene,
                              trait |-> Fill(kt)["James"].trait])
    /\ pc = "normalize"
    /\ ht_i = 1 /\ og_i = 1 /\ tg_i = 1
    /\ call = NoCall
    /\ entered = {} /\ skipped = {} /\ visited = {} /\ nvisits = 0
    /\ total = << >>

NormalizeCall ==
    /\ pc = "normalize"
    /\ probabilities' = normalize(probabilities).probs
    /\ pc' = IF normalize(probabilities).raised THEN "ZeroDivisionError" ELSE "done"
    /\ UNCHANGED <<csv, people, ht_i, og_i, tg_i, call, entered, skipped,
                   visited, nvisits, total>>

NextNormalize == NormalizeCall

SpecNormalize == InitNormalize /\ [][NextNormalize]_vars

(***************************************************************************)
(* Properties                                                              *)
(***************************************************************************)
Genes == {0, 1, 2}

\* Sum of three quotients, and of two.
QSum3(f) == QAdd(QAdd(f[2], f[1]), f[0])

QSum2(f) == QAdd(f[TRUE], f[FALSE])

AllSumsNonZero(probs) ==
    \A person \in DOMAIN probs :
        gene_sum(probs[person]) # << >> /\ trait_sum(probs[person]) # << >>

\* new is old with every bucket divided by the sum of its distribution.
Normalized(old, new) ==
    /\ DOMAIN new = DOMAIN old
    /\ \A person \in DOMAIN old :
          /\ \A g \in Genes :
                /\ new[person].gene[g] = Div(old[person].gene[g], gene_sum(old[person]))
                /\ QInUnit(new[person].gene[g])
          /\ \A t \in BOOLEAN :
                /\ new[person].trait[t] = Div(old[person].trait[t], trait_sum(old[person]))
                /\ QInUnit(new[person].trait[t])
          /\ QIsOne(QSum3(new[person].gene))
          /\ QIsOne(QSum2(new[person].trait))
          /\ \A g, h \in Genes :
                Mul(Mul(new[person].gene[g].num, new[person].gene[h].den),
                    old[person].gene[h])
                = Mul(Mul(new[person].gene[h].num, new[person].gene[g].den),
                      old[person].gene[g])
          /\ \A t, u \in BOOLEAN :
                Mul(Mul(new[person].trait[t].num, new[person].trait[u].den),
                    old[person].trait[u])
                = Mul(Mul(new[person].trait[u].num, new[person].trait[t].den),
                      old[person].trait[t])

OneOneTwo == (0 :> FromInt(1)) @@ (1 :> FromInt(1)) @@ (2 :> FromInt(2))

QuarterQuarterHalf(f) ==
    /\ QEq(f[0], Div(FromInt(25), FromInt(100)))
    /\ QEq(f[1], Div(FromInt(25), FromInt(100)))
    /\ QEq(f[2], Div(FromInt(50), FromInt(100)))

\* C1: when no sum is zero, normalize returns normally having replaced, for
\* every person, each gene bucket by its value over the sum of the three gene
\* buckets and each trait bucket by its value over the sum of the two trait
\* buckets; then each distribution sums to 1, every value lies in [0, 1], the
\* ratios between buckets are kept, and {0: 1, 1: 1, 2: 2} becomes
\* {0: 0.25, 1: 0.25, 2: 0.5}.
C1_NormalizeContract ==
    [][(pc = "normalize" /\ AllSumsNonZero(probabilities))
        => /\ pc' = "done"
           /\ Normalized(probabilities, probabilities')
           /\ probabilities["Harry"].gene = OneOneTwo
                 => QuarterQuarterHalf(probabilities'["Harry"].gene)]_vars

C1_Witness ==
    /\ pc = "done"
    /\ QuarterQuarterHalf(probabilities["Harry"].gene)
    /\ probabilities["Harry"].gene[2].num = FromInt(2)
    /\ probabilities["James"].gene[0].den # probabilities["James"].trait[TRUE].den

(***************************************************************************)
(* Family graphs                                                           *)
(***************************************************************************)
Founder(ppl, a) == ppl[a].mother = None /\ ppl[a].father = None

Children(ppl, S) ==
    {c \in DOMAIN ppl : ppl[c].mother \in S \/ ppl[c].father \in S}

RECURSIVE DescendantsWithin(_, _, _)
DescendantsWithin(ppl, S, k) ==
    IF k = 0 THEN S
    ELSE DescendantsWithin(ppl, S \cup Children(ppl, S), k - 1)

Descendants(ppl, a) ==
    DescendantsWithin(ppl, Children(ppl, {a}), Cardinality(DOMAIN ppl))

\* Founder, or two parents that are two other persons of the graph; no person
\* is its own descendant.
WellFormed(ppl) ==
    \A a \in DOMAIN ppl :
        /\ \/ Founder(ppl, a)
           \/ /\ ppl[a].mother \in DOMAIN ppl \ {a}
              /\ ppl[a].father \in DOMAIN ppl \ {a}
              /\ ppl[a].mother # ppl[a].father
        /\ a \notin Descendants(ppl, a)

\* A parent named that is no person of the graph, or exactly one parent.
Malformed(ppl) ==
    \E a \in DOMAIN ppl :
        \/ ppl[a].mother # None /\ ppl[a].mother \notin DOMAIN ppl
        \/ ppl[a].father # None /\ ppl[a].father \notin DOMAIN ppl
        \/ (ppl[a].mother = None) # (ppl[a].father = None)

NoEvidence(ppl) == \A a \in DOMAIN ppl : ppl[a].trait = None

\* The trait subset S gives every person of known trait that trait.
Agrees(ppl, S) ==
    \A a \in DOMAIN ppl :
        /\ ppl[a].trait = "True" => a \in S
        /\ ppl[a].trait = "False" => a \notin S

EnumerationOver ==
    \/ pc = "have_trait" /\ ht_i > Len(powerset(names))
    \/ pc \in {"done", "ZeroDivisionError"}

\* C2: every trait subset that reaches joint_probability and update gives each
\* person of known trait exactly that trait; a subset that disagrees with a
\* known trait is skipped and never evaluated; and once the enumeration is
\* over, every agreeing subset has been processed.
C2_EvidenceRespected ==
    /\ \A S \in entered : Agrees(people, S)
    /\ \A S \in skipped : ~Agrees(people, S)
    /\ pc = "genes" => have_trait \in entered
    /\ call.p # << >> => call.have_trait \in entered
    /\ EnumerationOver
          => /\ entered = {S \in SUBSET names : Agrees(people, S)}
             /\ skipped = (SUBSET names) \ entered

C2_Witness ==
    /\ pc = "done"
    /\ Cardinality(entered) = 2
    /\ Cardinality(skipped) = 6
    /\ call.have_trait \in entered

DisjointPairs(S) ==
    {pair \in (SUBSET S) \X (SUBSET S) : pair[1] \cap pair[2] = {}}

\* C3: within one surviving trait subset the gene loops visit no pair
\* (one_gene, two_genes) twice and no overlapping pair, and when they end they
\* have visited every pair of disjoint subsets: 3^n gene assignments.
C3_GeneAssignmentsOnce ==
    /\ nvisits = Cardinality(visited)
    /\ visited \subseteq DisjointPairs(names)
    /\ (pc \in {"have_trait", "done"} /\ entered # {})
          => /\ visited = DisjointPairs(names)
             /\ nvisits = 3 ^ Cardinality(names)

C3_Witness ==
    /\ pc = "have_trait"
    /\ nvisits = 27
    /\ <<{"Harry", "Lily"}, {"James"}>> \in visited

\* The value hi * 10^6 + lo, over 10^13.
Decimal13(hi, lo) ==
    Div(Add(Mul(FromInt(hi), FromInt(1000000)), FromInt(lo)), Pow(FromInt(10), 13))

ExampleFamily ==
    /\ pc # "load"
    /\ people["Harry"].mother = "Lily" /\ people["Harry"].father = "James"
    /\ Founder(people, "James") /\ Founder(people, "Lily")

ExampleCall ==
    /\ call.one_gene = {"Harry"}
    /\ call.two_genes = {"James"}
    /\ call.have_trait = {"Harry", "James"}
    /\ call.p # << >>

\* C6 as stated: for Harry (mother Lily, father James) and the hypothesis
\* one_gene = {Harry}, two_genes = {James}, have_trait = {Harry, James},
\* joint_probability is 0.0026643247488.
C6_JointIs0026643247488 ==
    (ExampleFamily /\ ExampleCall)
        => QEq(Div(call.p, One(people)), Decimal13(26643, 247488))

\* C6 amended: for that family and that hypothesis joint_probability is
\* 0.0033909587712.
C6_JointIs0033909587712 ==
    (ExampleFamily /\ ExampleCall)
        => QEq(Div(call.p, One(people)), Decimal13(33909, 587712))

C6_Witness == ExampleFamily /\ ExampleCall

\* C7: for a well-formed family graph the joint probabilities of the whole
\* hypothesis space (no evidence: all 2^n trait subsets, each with all 3^n
\* gene assignments) sum to 1.
C7_MassIsOne ==
    (EnumerationOver /\ NoEvidence(people) /\ WellFormed(people))
        => /\ entered = SUBSET names
           /\ total = One(people)

C7_Witness ==
    /\ pc = "done"
    /\ NoEvidence(people)
    /\ WellFormed(people)
    /\ ~Founder(people, "Harry")
    /\ people["Harry"].mother # people["Harry"].father

GeneIsPrior(dist) ==
    \A g \in Genes : QEq(dist.gene[g], Div(FromInt(PROBS_gene[g]), FromInt(Unit)))

\* C8 as stated: after the enumeration and normalize, every founder of unknown
\* trait has the gene prior as its gene distribution, whatever the evidence on
\* the other persons.
C8_FounderKeepsPrior ==
    (pc = "done" /\ WellFormed(people))
        => \A a \in names :
              (Founder(people, a) /\ people[a].trait = None)
                  => GeneIsPrior(probabilities[a])

\* C8 amended: in a well-formed family graph, every founder of unknown trait
\* none of whose descendants has a known trait has the gene prior as its gene
\* distribution after the enumeration and normalize.
C8_FounderWithoutEvidenceBelow ==
    (pc = "done" /\ WellFormed(people))
        => \A a \in names :
              (/\ Founder(people, a)
               /\ people[a].trait = None
               /\ \A d \in Descendants(people, a) : people[d].trait = None)
                  => GeneIsPrior(probabilities[a])

C8_Witness ==
    /\ pc = "done"
    /\ WellFormed(people)
    /\ people["Harry"].father = "James"
    /\ people["Harry"].trait = None
    /\ people["James"].trait = None
    /\ people["Lily"].trait = "True"
    /\ GeneIsPrior(probabilities["James"])
    /\ ~GeneIsPrior(probabilities["Lily"])

\* C9: a malformed family graph is rejected before the enumeration: nothing is
\* evaluated by joint_probability or accumulated by update, and no normalized
\* result is produced.
C9_MalformedRejected ==
    Malformed(load_data(csv))
        => /\ pc \notin {"genes", "done"}
           /\ call = NoCall
           /\ total = << >>

\* C10: during the enumeration every person's three gene buckets and two trait
\* buckets each sum to the sum of the joint probabilities accumulated so far,
\* and normalize divides every bucket of every person by that one total.
C10_SumsEqualTotal ==
    /\ pc \in {"have_trait", "genes"}
          => \A a \in names :
                /\ gene_sum(probabilities[a]) = total
                /\ trait_sum(probabilities[a]) = total
    /\ pc = "done"
          => \A a \in names :
                /\ \A g \in Genes : probabilities[a].gene[g].den = total
                /\ \A t \in BOOLEAN : probabilities[a].trait[t].den = total

C10_Witness ==
    /\ pc = "genes"
    /\ nvisits = 5
    /\ Cardinality(entered) = 2
    /\ \A a \in names : gene_sum(probabilities[a]) = total /\ total # << >>
    /\ probabilities["Harry"].gene # probabilities["James"].gene

\* C4: update adds p to exactly one gene bucket (2 for a person in two_genes,
\* else 1 for a person in one_gene, else 0) and exactly one trait bucket (True
\* for a person in have_trait, else False) of every person, and leaves every
\* other bucket, the persons and the bucket keys as they were.
C4_UpdateFrame ==
    [][pc = "update"
        => /\ DOMAIN probabilities' = DOMAIN probabilities
           /\ \A person \in DOMAIN probabilities :
                 LET bucket == IF person \in call.two_genes THEN 2
                               ELSE IF person \in call.one_gene THEN 1 ELSE 0
                     has == person \in call.have_trait
                     old == probabilities[person]
                     new == probabilities'[person]
                 IN  /\ DOMAIN new = {"gene", "trait"}
                     /\ DOMAIN new.gene = Genes
                     /\ DOMAIN new.trait = BOOLEAN
                     /\ new.gene[bucket] = Add(old.gene[bucket], call.p)
                     /\ \A g \in Genes \ {bucket} : new.gene[g] = old.gene[g]
                     /\ new.trait[has] = Add(old.trait[has], call.p)
                     /\ new.trait[~has] = old.trait[~has]]_vars

C4_Witness ==
    /\ pc = "updated"
    /\ call.one_gene = {"Harry", "James"}
    /\ call.two_genes = {"James", "Lily"}
    /\ call.have_trait = {"Lily"}
    /\ call.p = FromInt(2)
    /\ probabilities["James"].gene = (0 :> FromInt(1)) @@ (1 :> FromInt(1)) @@ (2 :> FromInt(3))
    /\ probabilities["Harry"].trait = (TRUE :> FromInt(1)) @@ (FALSE :> FromInt(3))

ExampleUpdate ==
    call = [one_gene |-> {"Harry"}, two_genes |-> {"James"},
            have_trait |-> {"Harry", "James"}, p |-> FromInt(2)]

\* p = 0.02, two hundredths, in the four buckets the claim names, 0 elsewhere.
FourBuckets ==
    [person \in Names |->
        [gene  |-> [g \in Genes |->
                       IF (person = "Harry" /\ g = 1) \/ (person = "James" /\ g = 2)
                       THEN FromInt(2) ELSE << >>],
         trait |-> [t \in BOOLEAN |->
                       IF person \in {"Harry", "James"} /\ t
                       THEN FromInt(2) ELSE << >>]]]

\* The same, and 0.02 in Lily.gene[0] and Lily.trait[False] as well.
SixBuckets ==
    [FourBuckets EXCEPT !["Lily"].gene[0] = FromInt(2),
                        !["Lily"].trait[FALSE] = FromInt(2)]

\* C5 as stated: from zero accumulators for Harry, James and Lily, one update
\* with one_gene = {Harry}, two_genes = {James}, have_trait = {Harry, James}
\* and p = 0.02 leaves 0.02 in Harry.gene[1], James.gene[2], Harry.trait[True]
\* and James.trait[True], and 0 in every other bucket, Lily's included.
C5_OnlyFourBuckets ==
    [][(pc = "update" /\ ExampleUpdate /\ probabilities = [a \in Names |-> ZeroDist])
        => probabilities' = FourBuckets]_vars

\* C5 amended: that update leaves 0.02 in Harry.gene[1], James.gene[2],
\* Harry.trait[True], James.trait[True], Lily.gene[0] and Lily.trait[False],
\* and 0 in every other bucket.
C5_ExampleUpdate ==
    [][(pc = "update" /\ ExampleUpdate /\ probabilities = [a \in Names |-> ZeroDist])
        => probabilities' = SixBuckets]_vars

C5_Witness ==
    /\ pc = "updated"
    /\ ExampleUpdate
    /\ probabilities = SixBuckets

====
